---------------------------- MODULE Spec2Model ----------------------------
(***************************************************************************)
(* Flight profit calculation: the three programs of the repository.        *)
(*                                                                         *)
(*   "planning"  src/planning.js        class-aware, returns {error: msg}  *)
(*   "part_000"  src/unnamed/part_000   total seats, console.error + null  *)
(*   "part_001"  src/unnamed/part_001   total seats, console.error + null  *)
(*                                                                         *)
(* JavaScript numbers are modelled as exact decimals in fixed point        *)
(* (Scale units per 1) extended with NaN and +/-Infinity, with the IEEE    *)
(* rules for NaN and Infinity in +, -, *, / and >.  A CSV cell that the    *)
(* code hands to parseInt / parseFloat is modelled by what its text        *)
(* denotes (a decimal numeral, a currency-annotated numeral, the text      *)
(* Infinity, or any other text).  Strings that are keys are sequences of   *)
(* one-character strings, so that toUpperCase is a real conversion.        *)
(*                                                                         *)
(* Of a result object the model keeps the echoed request fields and        *)
(* income, cost and profit; the figures derived from them (profit margin,  *)
(* load factor, break-even seats, CO2) are left out.  The interactive      *)
(* FlightManager of planning.js is represented by the calculation it       *)
(* calls.  Flight rows have all nine columns.                              *)
(***************************************************************************)
EXTENDS Integers, Sequences, FiniteSets, TLC

VARIABLES
    program,     \* which of the three source files is running
    airports,    \* rows of airports.csv   (readCsv)
    aircrafts,   \* rows of aeroplanes.csv (readCsv)
    flight,      \* the flight row last handed to the calculation
    outcome,     \* what that calculation returned and logged
    lookup,      \* the last findDetails call: its key, table and result
    flights,     \* processFlightData: rows of the flights file
    isValid,     \* processFlightData: its isValid parameter
    idx,         \* processFlightData: number of flights.map callbacks done
    mapped,      \* processFlightData: return values of the callbacks so far
    results,     \* processFlightData: mapped, filtered (result !== null)
    console,     \* processFlightData: console.error messages so far
    outputFile,  \* processFlightData: what fs.writeFileSync wrote
    phase        \* processFlightData: "idle", "map" or "done"

vars == <<program, airports, aircrafts, flight, outcome, lookup,
          flights, isValid, idx, mapped, results, console, outputFile, phase>>

-----------------------------------------------------------------------------
(* Bounds of the model *)

\* booked seat counts range over -1 .. MaxSeats in each class
MaxSeats == 2
\* lookup keys are all strings of at most MaxKeyLen characters
MaxKeyLen == 2
\* a flights file holds at most MaxFlights rows
MaxFlights == 2

\* fixed-point units per 1 (three decimals)
Scale == 10 * 10 * 10

-----------------------------------------------------------------------------
(* JavaScript numbers *)

NaN == [k |-> "nan", v |-> 0]
Infinity == [k |-> "inf", v |-> 1]
NegInfinity == [k |-> "inf", v |-> -1]
Num(v) == [k |-> "num", v |-> v]
Whole(n) == Num(n * Scale)

Abs(n) == IF n < 0 THEN -n ELSE n
Sign(n) == IF n < 0 THEN -1 ELSE IF n > 0 THEN 1 ELSE 0

\* isNaN(x)
isNaN(x) == x.k = "nan"

\* Number.isFinite(x)
isFinite(x) == x.k = "num"

\* -x
Neg(x) == IF x.k = "nan" THEN NaN ELSE [k |-> x.k, v |-> -x.v]

\* x + y
Add(x, y) ==
    IF x.k = "nan" \/ y.k = "nan" THEN NaN
    ELSE IF x.k = "inf" /\ y.k = "inf" THEN (IF x.v = y.v THEN x ELSE NaN)
    ELSE IF x.k = "inf" THEN x
    ELSE IF y.k = "inf" THEN y
    ELSE Num(x.v + y.v)

\* x - y
Sub(x, y) == Add(x, Neg(y))

\* the fixed-point product of two finite values
MulFixed(a, b) ==
    LET s == Sign(a) * Sign(b)
        q == Abs(a) \div Scale
        r == Abs(a) % Scale
    IN  s * (q * Abs(b) + (r * Abs(b)) \div Scale)

\* x * y
Mul(x, y) ==
    IF x.k = "nan" \/ y.k = "nan" THEN NaN
    ELSE IF x.k = "inf" \/ y.k = "inf"
         THEN (IF Sign(x.v) * Sign(y.v) = 0 THEN NaN
               ELSE [k |-> "inf", v |-> Sign(x.v) * Sign(y.v)])
    ELSE Num(MulFixed(x.v, y.v))

\* a division by 10 where the code divides by 100
Div10(x) ==
    IF x.k = "num" THEN Num(Sign(x.v) * (Abs(x.v) \div 10)) ELSE x

\* x / 100
Div100(x) ==
    IF x.k = "num" THEN Num(Sign(x.v) * (Abs(x.v) \div 100)) ELSE x

\* x > y
Gt(x, y) ==
    IF x.k = "nan" \/ y.k = "nan" THEN FALSE
    ELSE IF x.k = "inf" THEN x.v = 1 /\ ~(y.k = "inf" /\ y.v = 1)
    ELSE IF y.k = "inf" THEN y.v = -1
    ELSE x.v > y.v

\* x === 0
IsZero(x) == x.k = "num" /\ x.v = 0

\* x.toFixed(2): the value in hundredths, nearest, ties away from zero;
\* NaN and the infinities print as themselves
toFixed2(x) ==
    IF x.k = "num"
    THEN [k |-> "num", v |-> Sign(x.v) * ((Abs(x.v) + (Scale \div 200)) \div (Scale \div 100))]
    ELSE x

-----------------------------------------------------------------------------
(* CSV cells and their parsing *)

NumCell(v) == [c |-> "num", v |-> v]      \* "12", "-1", "10.004"
MoneyCell(v) == [c |-> "money", v |-> v]  \* a numeral with a currency sign
TextCell == [c |-> "text", v |-> 0]       \* any text that starts no numeral
InfCell == [c |-> "inf", v |-> 1]         \* the text Infinity

\* parseFloat(cell)
parseFloat(cell) ==
    CASE cell.c = "num" -> Num(cell.v)
      [] cell.c = "inf" -> [k |-> "inf", v |-> cell.v]
      [] OTHER -> NaN

\* parseInt(cell): the integer part of a numeral, NaN for anything else
parseInt(cell) ==
    IF cell.c = "num"
    THEN Num(Sign(cell.v) * ((Abs(cell.v) \div Scale) * Scale))
    ELSE NaN

\* cell.replace(/[^0-9.]/g, ""): everything but digits and dots is dropped,
\* the minus sign and the currency sign included
stripNonNumeric(cell) ==
    IF cell.c \in {"num", "money"} THEN NumCell(Abs(cell.v)) ELSE TextCell

-----------------------------------------------------------------------------
(* Strings *)

LowerChars == <<"a","b","c","d","e","f","g","h","i","j","k","l","m",
                "n","o","p","q","r","s","t","u","v","w","x","y","z">>
UpperChars == <<"A","B","C","D","E","F","G","H","I","J","K","L","M",
                "N","O","P","Q","R","S","T","U","V","W","X","Y","Z">>

UpperChar(ch) ==
    IF \E i \in 1..26 : LowerChars[i] = ch
    THEN UpperChars[CHOOSE i \in 1..26 : LowerChars[i] = ch]
    ELSE ch

\* s.toUpperCase()
toUpperCase(s) == [i \in 1..Len(s) |-> UpperChar(s[i])]

\* the UK airport codes (UK_AIRPORTS of part_000; "MAN" in the other two)
MAN == <<"M","A","N">>
LHR == <<"L","H","R">>

-----------------------------------------------------------------------------
(* Lookup *)

\* what Array.prototype.find returns when no element matches
undefined == [undefined |-> TRUE]

\* a lookup that compares the keys as they are written
findDetailsCaseSensitive(key, dataSet) ==
    LET hits == {i \in 1..Len(dataSet) : dataSet[i].key = key}
    IN  IF hits = {} THEN undefined
        ELSE dataSet[CHOOSE i \in hits : \A j \in hits : i <= j]

\* findDetails(key, dataSet, keyIndex): the first row whose key column,
\* upper-cased, is the upper-cased key.  Rows carry their key column
\* (index 0, 'code', 'type') as the field key.
findDetails(key, dataSet) ==
    LET hits == {i \in 1..Len(dataSet) :
                    toUpperCase(dataSet[i].key) = toUpperCase(key)}
    IN  IF hits = {} THEN undefined
        ELSE dataSet[CHOOSE i \in hits : \A j \in hits : i <= j]

\* dataSet.map(a => a[0]): the key column of a table
KeysOf(dataSet) == [i \in 1..Len(dataSet) |-> dataSet[i].key]

-----------------------------------------------------------------------------
(* Flight requests *)

\* new Flight(flightData) of planning.js
Flight(flightData) ==
    [ukAirport |-> flightData.ukAirport,
     overseasAirport |-> flightData.overseasAirport,
     aircraftType |-> flightData.aircraftType,
     economySeats |-> parseInt(flightData.economySeats),
     businessSeats |-> parseInt(flightData.businessSeats),
     firstClassSeats |-> parseInt(flightData.firstClassSeats),
     economyPrice |-> parseFloat(flightData.economyPrice),
     businessPrice |-> parseFloat(flightData.businessPrice),
     firstClassPrice |-> parseFloat(flightData.firstClassPrice)]

\* new Flight(...data) of part_000: seats and prices are arrays
FlightOO(data) ==
    [ukAirport |-> data.ukAirport,
     overseasAirport |-> data.overseasAirport,
     aircraftType |-> data.aircraftType,
     seats |-> <<parseInt(data.economySeats), parseInt(data.businessSeats),
                 parseInt(data.firstClassSeats)>>,
     prices |-> <<parseFloat(data.economyPrice), parseFloat(data.businessPrice),
                  parseFloat(data.firstClassPrice)>>]

\* new Airport(...data) of part_000
Airport(data) ==
    [key |-> data.key,
     distanceFromMan |-> parseFloat(data.distMan),
     distanceFromLhr |-> parseFloat(data.distLhr)]

\* new Aircraft(...data) of part_000
Aircraft(data) ==
    [key |-> data.key,
     runningCostPerSeatPer100km |-> parseFloat(stripNonNumeric(data.cost)),
     maxFlightRange |-> parseFloat(data.range),
     totalSeats |-> parseInt(data.col3)]

\* parseFlightData(flight) of part_001
parseFlightData(row) ==
    [ukAirport |-> row.ukAirport,
     overseasAirport |-> row.overseasAirport,
     aircraftType |-> row.aircraftType,
     economySeats |-> parseInt(row.economySeats),
     businessSeats |-> parseInt(row.businessSeats),
     firstClassSeats |-> parseInt(row.firstClassSeats),
     economyPrice |-> parseFloat(row.economyPrice),
     businessPrice |-> parseFloat(row.businessPrice),
     firstClassPrice |-> parseFloat(row.firstClassPrice)]

-----------------------------------------------------------------------------
(* Messages and return values *)

\* A diagnostic message: the template it was built from (kind, and class or
\* data type where the template names one) and the values interpolated
\* into it; carries names the values that appear in the text.
NoMsg ==
    [kind |-> "none", cls |-> "", dataType |-> "", carries |-> {},
     ukAirport |-> <<>>, overseasAirport |-> <<>>, aircraftType |-> <<>>,
     valid |-> <<>>, requested |-> NaN, available |-> NaN,
     distance |-> NaN, maxRange |-> NaN, value |-> NaN]

\* The value a calculation returns.  tag is "ok" (a result object),
\* "error" (an object {error: message}) or "null"; fields names the
\* properties of a result object.
NoRet ==
    [tag |-> "null", error |-> NoMsg, fields |-> {},
     ukAirport |-> <<>>, overseasAirport |-> <<>>, aircraftType |-> <<>>,
     economySeats |-> NaN, businessSeats |-> NaN, firstClassSeats |-> NaN,
     income |-> NaN, cost |-> NaN, profit |-> NaN]

\* One call of a calculation: what it returned, what it wrote with
\* console.error, the checks it evaluated in order, and the economic
\* quantities it computed.
Outcome(ret, log, checks, computed) ==
    [ret |-> ret, console |-> log, checks |-> checks, computed |-> computed]

NoOutcome == Outcome(NoRet, <<>>, <<>>, {})

-----------------------------------------------------------------------------
(* src/planning.js: FlightProfitCalculator.calculateProfit *)

\* a range check that compares the wrong way round
exceedsRangeReversed(distance, maxFlightRange) == Gt(maxFlightRange, distance)

\* distance > maxFlightRange
exceedsRange(distance, maxFlightRange) == Gt(distance, maxFlightRange)

\* a profit that adds the cost
profitOfAdded(income, totalCost) == Add(income, totalCost)

\* income - totalCost
profitOf(income, totalCost) == Sub(income, totalCost)

\* the common prefix "Flight from .. to .. by ..:" of the messages
FlightMsg(f, kind) ==
    [NoMsg EXCEPT !.kind = kind,
                  !.carries = {"ukAirport", "overseasAirport", "aircraftType"},
                  !.ukAirport = f.ukAirport,
                  !.overseasAirport = f.overseasAirport,
                  !.aircraftType = f.aircraftType]

\* return { error: msg }
ErrorObject(msg) == [NoRet EXCEPT !.tag = "error", !.error = msg]

UnavailableMsg(f, cls) ==
    [FlightMsg(f, "ClassUnavailable") EXCEPT !.cls = cls]

\* an overbooking message with the two counts the wrong way round
OverbookingMsgSwapped(f, cls, requested, available) ==
    [FlightMsg(f, "Overbooking") EXCEPT
        !.cls = cls, !.requested = available, !.available = requested,
        !.carries = @ \cup {"requested", "available"}]

OverbookingMsg(f, cls, requested, available) ==
    [FlightMsg(f, "Overbooking") EXCEPT
        !.cls = cls, !.requested = requested, !.available = available,
        !.carries = @ \cup {"requested", "available"}]

calculateProfit(f, airportRows, aircraftRows) ==
    LET airport == findDetails(f.overseasAirport, airportRows)
        aircraft == findDetails(f.aircraftType, aircraftRows)
        distance == IF toUpperCase(f.ukAirport) = MAN
                    THEN parseFloat(airport.distMan)
                    ELSE parseFloat(airport.distLhr)
        runningCostPerSeatPer100km == parseFloat(stripNonNumeric(aircraft.cost))
        maxFlightRange == parseFloat(aircraft.range)
        economySeats == parseInt(aircraft.col3)
        businessSeats == parseInt(aircraft.col4)
        firstClassSeats == parseInt(aircraft.col5)
        totalSeats == Add(Add(economySeats, businessSeats), firstClassSeats)
        totalBookedSeats == Add(Add(f.economySeats, f.businessSeats), f.firstClassSeats)
        income == Add(Add(Mul(f.economySeats, f.economyPrice),
                          Mul(f.businessSeats, f.businessPrice)),
                      Mul(f.firstClassSeats, f.firstClassPrice))
        costPerSeat == Mul(runningCostPerSeatPer100km, Div100(distance))
        totalCost == Mul(costPerSeat, totalBookedSeats)
        profit == profitOf(income, totalCost)
        c1 == <<"airport">>
        c2 == c1 \o <<"aircraft">>
        c3 == c2 \o <<"range">>
        c4 == c3 \o <<"unavailable:economy">>
        c5 == c4 \o <<"unavailable:business">>
        c6 == c5 \o <<"unavailable:first">>
        c7 == c6 \o <<"overbooking:economy">>
        c8 == c7 \o <<"overbooking:business">>
        c9 == c8 \o <<"overbooking:first">>
        c10 == c9 \o <<"overbooking:total">>
    IN
    IF airport = undefined THEN
        Outcome(ErrorObject([NoMsg EXCEPT
                    !.kind = "UnknownAirport",
                    !.carries = {"overseasAirport", "valid"},
                    !.overseasAirport = f.overseasAirport,
                    !.valid = KeysOf(airportRows)]), <<>>, c1, {})
    ELSE IF aircraft = undefined THEN
        Outcome(ErrorObject([FlightMsg(f, "UnknownAircraft") EXCEPT
                    !.carries = @ \cup {"valid"},
                    !.valid = KeysOf(aircraftRows)]), <<>>, c2, {})
    ELSE IF exceedsRange(distance, maxFlightRange) THEN
        Outcome(ErrorObject([FlightMsg(f, "RangeExceeded") EXCEPT
                    !.carries = @ \cup {"distance", "maxRange"},
                    !.distance = distance,
                    !.maxRange = maxFlightRange]), <<>>, c3, {})
    ELSE IF Gt(f.economySeats, Whole(0)) /\ IsZero(economySeats) THEN
        Outcome(ErrorObject(UnavailableMsg(f, "economy")), <<>>, c4, {})
    ELSE IF Gt(f.businessSeats, Whole(0)) /\ IsZero(businessSeats) THEN
        Outcome(ErrorObject(UnavailableMsg(f, "business")), <<>>, c5, {})
    ELSE IF Gt(f.firstClassSeats, Whole(0)) /\ IsZero(firstClassSeats) THEN
        Outcome(ErrorObject(UnavailableMsg(f, "first")), <<>>, c6, {})
    ELSE IF Gt(f.economySeats, economySeats) THEN
        Outcome(ErrorObject(OverbookingMsg(f, "economy", f.economySeats, economySeats)),
                <<>>, c7, {})
    ELSE IF Gt(f.businessSeats, businessSeats) THEN
        Outcome(ErrorObject(OverbookingMsg(f, "business", f.businessSeats, businessSeats)),
                <<>>, c8, {})
    ELSE IF Gt(f.firstClassSeats, firstClassSeats) THEN
        Outcome(ErrorObject(OverbookingMsg(f, "first", f.firstClassSeats, firstClassSeats)),
                <<>>, c9, {})
    ELSE IF Gt(totalBookedSeats, totalSeats) THEN
        Outcome(ErrorObject(OverbookingMsg(f, "total", totalBookedSeats, totalSeats)),
                <<>>, c10, {})
    ELSE
        Outcome([NoRet EXCEPT
                    !.tag = "ok",
                    !.fields = {"ukAirport", "overseasAirport", "aircraftType",
                                "income", "cost", "profit"},
                    !.ukAirport = f.ukAirport,
                    !.overseasAirport = f.overseasAirport,
                    !.aircraftType = f.aircraftType,
                    !.income = toFixed2(income),
                    !.cost = toFixed2(totalCost),
                    !.profit = toFixed2(profit)],
                <<>>, c10, {"income", "cost", "profit"})

-----------------------------------------------------------------------------
(* src/unnamed/part_001: calculateFlightProfit *)

\* an overbooking check that lets one seat too many through
isOverbookedOffByOne(totalBookedSeats, totalSeats) ==
    Gt(totalBookedSeats, Add(totalSeats, Whole(1)))

\* totalBookedSeats > totalSeats
isOverbooked(totalBookedSeats, totalSeats) == Gt(totalBookedSeats, totalSeats)

\* the message validateParsedData logs: "Invalid <dataType> value: <data>"
InvalidMsg(data, dataType) ==
    [NoMsg EXCEPT !.kind = "InvalidNumericData", !.dataType = dataType,
                  !.carries = {"dataType", "value"}, !.value = data]

\* validateParsedData(data, dataType): its return value
validateParsedData(data, dataType) == ~isNaN(data)

\* the names given to the four values of the numeric sanity check
DataTypes == <<"distance", "running cost", "max flight range", "total seats">>

\* [..].every((val, idx) => validateParsedData(val, names[idx])): the index
\* of the first value that fails, 0 when every value passes
FirstInvalid(vals) ==
    LET bad == {i \in 1..Len(vals) : ~validateParsedData(vals[i], DataTypes[i])}
    IN  IF bad = {} THEN 0 ELSE CHOOSE i \in bad : \A j \in bad : i <= j

\* the checks Array.prototype.every evaluated: up to the first failure
NumericChecks(vals) ==
    LET n == IF FirstInvalid(vals) = 0 THEN Len(vals) ELSE FirstInvalid(vals)
    IN  [i \in 1..n |-> "numeric:" \o DataTypes[i]]

RangeMsg(distance, maxFlightRange) ==
    [NoMsg EXCEPT !.kind = "RangeExceeded",
                  !.carries = {"distance", "maxRange"},
                  !.distance = distance, !.maxRange = maxFlightRange]

TotalOverbookingMsg(totalBookedSeats, totalSeats) ==
    [NoMsg EXCEPT !.kind = "Overbooking", !.cls = "total",
                  !.carries = {"requested", "available"},
                  !.requested = totalBookedSeats, !.available = totalSeats]

UnknownAirportMsg(overseasAirport, table) ==
    [NoMsg EXCEPT !.kind = "UnknownAirport",
                  !.carries = {"overseasAirport", "valid"},
                  !.overseasAirport = overseasAirport,
                  !.valid = KeysOf(table)]

UnknownAircraftMsg(aircraftType) ==
    [NoMsg EXCEPT !.kind = "UnknownAircraft",
                  !.carries = {"aircraftType"},
                  !.aircraftType = aircraftType]

calculateFlightProfit(f, airportRows, aircraftRows) ==
    LET airport == findDetails(f.overseasAirport, airportRows)
        aircraft == findDetails(f.aircraftType, aircraftRows)
        distance == IF f.ukAirport = MAN
                    THEN parseFloat(airport.distMan)
                    ELSE parseFloat(airport.distLhr)
        runningCostPerSeatPer100km == parseFloat(stripNonNumeric(aircraft.cost))
        maxFlightRange == parseFloat(aircraft.range)
        totalSeats == parseInt(aircraft.col3)
        vals == <<distance, runningCostPerSeatPer100km, maxFlightRange, totalSeats>>
        totalBookedSeats == Add(Add(f.economySeats, f.businessSeats), f.firstClassSeats)
        income == Add(Add(Mul(f.economySeats, f.economyPrice),
                          Mul(f.businessSeats, f.businessPrice)),
                      Mul(f.firstClassSeats, f.firstClassPrice))
        costPerSeat == Mul(runningCostPerSeatPer100km, Div100(distance))
        totalCost == Mul(costPerSeat, totalBookedSeats)
        profit == Sub(income, totalCost)
        c1 == <<"airport">>
        c2 == c1 \o <<"aircraft">>
        c3 == c2 \o NumericChecks(vals)
        c4 == c3 \o <<"range">>
        c5 == c4 \o <<"overbooking:total">>
        c6 == c5 \o <<"income">>
        c7 == c6 \o <<"total cost">>
    IN
    IF airport = undefined THEN
        Outcome(NoRet, <<UnknownAirportMsg(f.overseasAirport, airportRows)>>, c1, {})
    ELSE IF aircraft = undefined THEN
        Outcome(NoRet, <<UnknownAircraftMsg(f.aircraftType)>>, c2, {})
    ELSE IF FirstInvalid(vals) # 0 THEN
        Outcome(NoRet, <<InvalidMsg(vals[FirstInvalid(vals)],
                                    DataTypes[FirstInvalid(vals)])>>, c3, {})
    ELSE IF Gt(distance, maxFlightRange) THEN
        Outcome(NoRet, <<RangeMsg(distance, maxFlightRange)>>, c4, {})
    ELSE IF isOverbooked(totalBookedSeats, totalSeats) THEN
        Outcome(NoRet, <<TotalOverbookingMsg(totalBookedSeats, totalSeats)>>, c5, {})
    ELSE IF ~validateParsedData(income, "income") THEN
        Outcome(NoRet, <<InvalidMsg(income, "income")>>, c6, {"income"})
    ELSE IF ~validateParsedData(totalCost, "total cost") THEN
        Outcome(NoRet, <<InvalidMsg(totalCost, "total cost")>>, c7, {"income", "cost"})
    ELSE
        Outcome([NoRet EXCEPT
                    !.tag = "ok",
                    !.fields = {"ukAirport", "overseasAirport", "aircraftType",
                                "economySeats", "businessSeats", "firstClassSeats",
                                "income", "cost", "profit"},
                    !.ukAirport = f.ukAirport,
                    !.overseasAirport = f.overseasAirport,
                    !.aircraftType = f.aircraftType,
                    !.economySeats = f.economySeats,
                    !.businessSeats = f.businessSeats,
                    !.firstClassSeats = f.firstClassSeats,
                    !.income = toFixed2(income),
                    !.cost = toFixed2(totalCost),
                    !.profit = toFixed2(profit)],
                <<>>, c7, {"income", "cost", "profit"})

-----------------------------------------------------------------------------
(* src/unnamed/part_000: FlightProfitCalculator.calculateProfit *)

\* getDistance(flight, airport)
getDistance(f, airport) ==
    IF f.ukAirport = MAN THEN airport.distanceFromMan ELSE airport.distanceFromLhr

\* flight.seats.reduce((sum, seat) => sum + seat, 0)
SumSeats(seats) == Add(Add(Add(Whole(0), seats[1]), seats[2]), seats[3])

\* flight.seats.reduce((sum, seat, index) => sum + seat * flight.prices[index], 0)
SumIncome(seats, prices) ==
    Add(Add(Add(Whole(0), Mul(seats[1], prices[1])),
            Mul(seats[2], prices[2])),
        Mul(seats[3], prices[3]))

calculateProfitOO(f, airportObjs, aircraftObjs) ==
    LET airport == findDetails(f.overseasAirport, airportObjs)
        aircraft == findDetails(f.aircraftType, aircraftObjs)
        distance == getDistance(f, airport)
        vals == <<distance, aircraft.runningCostPerSeatPer100km,
                  aircraft.maxFlightRange, aircraft.totalSeats>>
        totalBookedSeats == SumSeats(f.seats)
        income == SumIncome(f.seats, f.prices)
        costPerSeat == Mul(aircraft.runningCostPerSeatPer100km, Div100(distance))
        totalCost == Mul(costPerSeat, totalBookedSeats)
        profit == Sub(income, totalCost)
        c1 == <<"airport">>
        c2 == c1 \o <<"aircraft">>
        c3 == c2 \o NumericChecks(vals)
        c4 == c3 \o <<"range">>
        c5 == c4 \o <<"overbooking:total">>
        c6 == c5 \o <<"income">>
        c7 == c6 \o <<"total cost">>
    IN
    IF airport = undefined THEN
        Outcome(NoRet, <<UnknownAirportMsg(f.overseasAirport, airportObjs)>>, c1, {})
    ELSE IF aircraft = undefined THEN
        Outcome(NoRet, <<UnknownAircraftMsg(f.aircraftType)>>, c2, {})
    ELSE IF FirstInvalid(vals) # 0 THEN
        Outcome(NoRet, <<InvalidMsg(vals[FirstInvalid(vals)],
                                    DataTypes[FirstInvalid(vals)])>>, c3, {})
    ELSE IF Gt(distance, aircraft.maxFlightRange) THEN
        Outcome(NoRet, <<RangeMsg(distance, aircraft.maxFlightRange)>>, c4, {})
    ELSE IF Gt(totalBookedSeats, aircraft.totalSeats) THEN
        Outcome(NoRet, <<TotalOverbookingMsg(totalBookedSeats, aircraft.totalSeats)>>,
                c5, {})
    ELSE IF ~validateParsedData(income, "income") THEN
        Outcome(NoRet, <<InvalidMsg(income, "income")>>, c6, {"income"})
    ELSE IF ~validateParsedData(totalCost, "total cost") THEN
        Outcome(NoRet, <<InvalidMsg(totalCost, "total cost")>>, c7, {"income", "cost"})
    ELSE
        Outcome([NoRet EXCEPT
                    !.tag = "ok",
                    !.fields = {"aircraftType", "income", "cost", "profit"},
                    !.aircraftType = f.aircraftType,
                    !.income = toFixed2(income),
                    !.cost = toFixed2(totalCost),
                    !.profit = toFixed2(profit)],
                <<>>, c7, {"income", "cost", "profit"})

-----------------------------------------------------------------------------
(* The three programs *)

Programs == {"planning", "part_000", "part_001"}
\* the programs whose entry point is processFlightData
BatchPrograms == {"part_000", "part_001"}

\* readCsv(airportsFile).map(data => new Airport(...data))
AirportObjects(rows) == [i \in 1..Len(rows) |-> Airport(rows[i])]

\* readCsv(aircraftsFile).map(data => new Aircraft(...data))
AircraftObjects(rows) == [i \in 1..Len(rows) |-> Aircraft(rows[i])]

\* One calculation of program p on a flight row and the two tables, each
\* parsed the way p parses it.
Calculate(p, row, airportRows, aircraftRows) ==
    CASE p = "planning" ->
            calculateProfit(Flight(row), airportRows, aircraftRows)
      [] p = "part_000" ->
            calculateProfitOO(FlightOO(row), AirportObjects(airportRows),
                              AircraftObjects(aircraftRows))
      [] p = "part_001" ->
            calculateFlightProfit(parseFlightData(row), airportRows, aircraftRows)

-----------------------------------------------------------------------------
(* Inputs *)

Km(n) == NumCell(n * Scale)
Count(n) == NumCell(n * Scale)

AirportRow(code, distMan, distLhr) ==
    [key |-> code, distMan |-> distMan, distLhr |-> distLhr]

AircraftRow(type, cost, range, col3, col4, col5) ==
    [key |-> type, cost |-> cost, range |-> range,
     col3 |-> col3, col4 |-> col4, col5 |-> col5]

FlightRow(uk, overseas, type, seats, prices) ==
    [ukAirport |-> uk, overseasAirport |-> overseas, aircraftType |-> type,
     economySeats |-> seats[1], businessSeats |-> seats[2],
     firstClassSeats |-> seats[3],
     economyPrice |-> prices[1], businessPrice |-> prices[2],
     firstClassPrice |-> prices[3]]

JF == <<"J","F">>
OR == <<"o","r">>
A3 == <<"A","3">>
B7 == <<"b","7">>
X1 == <<"X","1">>
K5 == <<"K","5">>
S1 == <<"S","1">>
T2 == <<"T","2">>
R9 == <<"R","9">>
EDI == <<"E","D","I">>

AirportJF == AirportRow(JF, Km(1000), Km(5000))
AirportOR == AirportRow(OR, Km(100), TextCell)
\* 5000 km from the first UK airport, 5500 km from the second
AirportK5 == AirportRow(K5, Km(5000), Km(5500))

\* "£5", range 4000, seats 3 / 1 / 1
AircraftA3 == AircraftRow(A3, MoneyCell(5 * Scale), Km(4000), Count(3), Count(1), Count(1))
\* "5.006", range 2000, seats 1 / 0 / 2
AircraftB7 == AircraftRow(B7, NumCell(5 * Scale + 6), Km(2000), Count(1), Count(0), Count(2))
\* non-numeric running cost and seat column
AircraftX1 == AircraftRow(X1, TextCell, Km(4000), TextCell, Count(1), Count(1))

\* "5.0", range 6000, seats 150 / 0 / 0
AircraftS1 == AircraftRow(S1, NumCell(5 * Scale), Km(6000), Count(150), Count(0), Count(0))

\* a non-numeric first seat column only
AircraftT2 == AircraftRow(T2, NumCell(5 * Scale), Km(4000), TextCell, Count(1), Count(1))
\* a non-numeric range only
AircraftR9 == AircraftRow(R9, NumCell(5 * Scale), TextCell, Count(3), Count(1), Count(1))

AirportTables == {<<AirportJF, AirportOR, AirportK5>>, <<AirportOR>>}
AircraftTables ==
    {<<AircraftA3, AircraftB7, AircraftX1, AircraftS1, AircraftT2, AircraftR9>>,
     <<AircraftB7>>}

\* the two UK airports in both cases, and an airport that is neither
UkCodes == {MAN, <<"m","a","n">>, LHR, <<"l","h","r">>, EDI}
OverseasCodes == {JF, <<"j","f">>, OR, <<"J">>, <<"Z","Z">>}
AircraftTypes == {A3, <<"a","3">>, B7, X1, T2, R9, <<"B","9">>}

\* seat cells: every triple of counts in -1 .. MaxSeats, a non-numeric
\* count and a count with a fraction
SeatTriples ==
    {<<Count(e), Count(b), Count(f)>> : e \in -1..MaxSeats, b \in -1..MaxSeats,
                                         f \in -1..MaxSeats}
    \cup {<<TextCell, Count(1), Count(0)>>,
          <<NumCell(Scale + 700), Count(0), Count(0)>>}

\* price cells: whole prices, and prices with a fraction of a penny
PriceTriples ==
    {<<Count(200), Count(300), Count(500)>>,
     <<NumCell(10 * Scale + 4), NumCell(20 * Scale + 4), Count(0)>>}

\* price cells: a non-numeric price, an infinite price, a negative price,
\* zero prices
OddPriceTriples ==
    {<<TextCell, Count(300), Count(500)>>,
     <<InfCell, Count(300), Count(500)>>,
     <<Count(-5), Count(300), Count(500)>>,
     <<Count(0), Count(0), Count(0)>>}

FewSeatTriples ==
    {<<Count(0), Count(0), Count(0)>>,
     <<Count(1), Count(0), Count(0)>>,
     <<Count(1), Count(1), Count(1)>>}

\* requests that vary the three keys
KeyRows ==
    {FlightRow(uk, ov, ty, st, <<Count(200), Count(300), Count(500)>>) :
        uk \in UkCodes, ov \in OverseasCodes, ty \in AircraftTypes,
        st \in {<<Count(1), Count(0), Count(0)>>,
                <<Count(MaxSeats + 2), Count(1), Count(1)>>,
                <<Count(MaxSeats + 2), Count(MaxSeats + 2), Count(1)>>}}

\* requests that vary the seat counts and the prices
NumRows ==
    {FlightRow(uk, ov, ty, sp[1], sp[2]) :
        uk \in {MAN, LHR}, ov \in {JF, OR}, ty \in {A3, B7, X1},
        sp \in (SeatTriples \X PriceTriples) \cup (FewSeatTriples \X OddPriceTriples)}

\* requests for the long flight: a full aircraft, one seat more, one less
LongRows ==
    {FlightRow(uk, K5, S1, <<Count(n), Count(0), Count(0)>>,
               <<Count(200), Count(300), Count(500)>>) :
        uk \in {MAN, <<"m","a","n">>, LHR, EDI}, n \in {149, 150, 151}}

FlightRows == KeyRows \cup NumRows \cup LongRows

NoFlight == FlightRow(<<>>, <<>>, <<>>, <<TextCell, TextCell, TextCell>>,
                      <<TextCell, TextCell, TextCell>>)
NoLookup == [key |-> <<>>, called |-> FALSE, found |-> undefined]
NoFile == [written |-> FALSE, content |-> <<>>]

-----------------------------------------------------------------------------
(* The calculation applied to one request *)

Init ==
    /\ program \in Programs
    /\ airports \in AirportTables
    /\ aircrafts \in AircraftTables
    /\ flight = NoFlight
    /\ outcome = NoOutcome
    /\ lookup = NoLookup
    /\ flights = <<>>
    /\ isValid = TRUE
    /\ idx = 0
    /\ mapped = <<>>
    /\ results = <<>>
    /\ console = <<>>
    /\ outputFile = NoFile
    /\ phase = "idle"

\* the program's calculation, called on one flight row
CalculateFlight ==
    \E row \in FlightRows :
        /\ outcome = NoOutcome
        /\ flight' = row
        /\ outcome' = Calculate(program, row, airports, aircrafts)
        /\ UNCHANGED <<program, airports, aircrafts, lookup, flights, isValid,
                       idx, mapped, results, console, outputFile, phase>>

Next == CalculateFlight

Spec == Init /\ [][Next]_vars

-----------------------------------------------------------------------------
(* findDetails applied to one key *)

\* the characters of the keys looked up
KeyChars == {"J", "j", "F", "f", "1"}

\* every string of at most n characters
KeysUpTo(n) == UNION {[1..m -> KeyChars] : m \in 0..n}

KeyedRow(code) == AirportRow(code, Km(1000), Km(5000))

LookupTables ==
    {<<KeyedRow(<<"J","F">>), KeyedRow(<<"J">>)>>,
     <<KeyedRow(<<"j","f">>), KeyedRow(<<"J","F">>), KeyedRow(<<"f","1">>)>>,
     <<KeyedRow(<<"J","F","1">>), KeyedRow(<<"F","j">>)>>,
     <<>>}

InitLookup ==
    /\ program \in Programs
    /\ airports \in LookupTables
    /\ aircrafts = <<>>
    /\ flight = NoFlight
    /\ outcome = NoOutcome
    /\ lookup = NoLookup
    /\ flights = <<>>
    /\ isValid = TRUE
    /\ idx = 0
    /\ mapped = <<>>
    /\ results = <<>>
    /\ console = <<>>
    /\ outputFile = NoFile
    /\ phase = "idle"

\* findDetails(key, this.airports, 0)
LookupKey ==
    \E key \in KeysUpTo(MaxKeyLen) :
        /\ ~lookup.called
        /\ lookup' = [key |-> key, called |-> TRUE,
                      found |-> findDetails(key, airports)]
        /\ UNCHANGED <<program, airports, aircrafts, flight, outcome, flights,
                       isValid, idx, mapped, results, console, outputFile, phase>>

NextLookup == LookupKey

SpecLookup == InitLookup /\ [][NextLookup]_vars

-----------------------------------------------------------------------------
(* processFlightData of part_000 and part_001 *)

\* the rows a flights file is made of
BatchRows ==
    {FlightRow(MAN, JF, A3, <<Count(1), Count(1), Count(0)>>,
               <<Count(200), Count(300), Count(500)>>),
     FlightRow(MAN, OR, B7, <<Count(1), Count(0), Count(0)>>,
               <<NumCell(10 * Scale + 4), Count(300), Count(500)>>),
     FlightRow(MAN, <<"Z","Z">>, A3, <<Count(1), Count(0), Count(0)>>,
               <<Count(200), Count(300), Count(500)>>),
     FlightRow(LHR, JF, A3, <<Count(1), Count(0), Count(0)>>,
               <<Count(200), Count(300), Count(500)>>),
     FlightRow(MAN, JF, A3, <<Count(2), Count(2), Count(0)>>,
               <<Count(200), Count(300), Count(500)>>),
     FlightRow(MAN, JF, A3, <<Count(1), Count(0), Count(0)>>,
               <<TextCell, Count(300), Count(500)>>)}

FlightFiles == UNION {[1..n -> BatchRows] : n \in 0..MaxFlights}

InitBatch ==
    /\ program \in BatchPrograms
    /\ airports = <<AirportJF, AirportOR>>
    /\ aircrafts = <<AircraftA3, AircraftB7, AircraftX1>>
    /\ flight = NoFlight
    /\ outcome = NoOutcome
    /\ lookup = NoLookup
    /\ flights = <<>>
    /\ isValid = TRUE
    /\ idx = 0
    /\ mapped = <<>>
    /\ results = <<>>
    /\ console = <<>>
    /\ outputFile = NoFile
    /\ phase = "idle"

\* a filter that stops at the first null
filterUntilNull(rets) ==
    LET nulls == {i \in 1..Len(rets) : rets[i].tag = "null"}
    IN  IF nulls = {} THEN rets
        ELSE SubSeq(rets, 1, (CHOOSE i \in nulls : \A j \in nulls : i <= j) - 1)

\* .filter(result => result !== null)
filterResults(rets) == SelectSeq(rets, LAMBDA r : r.tag # "null")

\* the end of processFlightData: the filter, and the output file when
\* isValid and some result is left
Finish(rets, valid) ==
    [results |-> filterResults(rets),
     outputFile |-> IF valid /\ Len(filterResults(rets)) > 0
                    THEN [written |-> TRUE, content |-> filterResults(rets)]
                    ELSE NoFile]

\* processFlightData(flightsFile, .., isValid) up to its flights.map: the
\* files are read; a file without rows is mapped and filtered at once
processFlightData ==
    \E file \in FlightFiles, valid \in BOOLEAN :
        /\ phase = "idle"
        /\ flights' = file
        /\ isValid' = valid
        /\ idx' = 0
        /\ mapped' = <<>>
        /\ IF Len(file) = 0
           THEN /\ phase' = "done"
                /\ results' = Finish(<<>>, valid).results
                /\ outputFile' = Finish(<<>>, valid).outputFile
           ELSE /\ phase' = "map"
                /\ UNCHANGED <<results, outputFile>>
        /\ UNCHANGED <<program, airports, aircrafts, flight, outcome, lookup, console>>

\* one callback of flights.map: the calculation of the next flight; after
\* the last one, the filter and the output
MapFlight ==
    /\ phase = "map"
    /\ idx < Len(flights)
    /\ LET o == Calculate(program, flights[idx + 1], airports, aircrafts)
           rets == Append(mapped, o.ret)
       IN  /\ flight' = flights[idx + 1]
           /\ outcome' = o
           /\ mapped' = rets
           /\ console' = console \o o.console
           /\ idx' = idx + 1
           /\ IF idx + 1 = Len(flights)
              THEN /\ phase' = "done"
                   /\ results' = Finish(rets, isValid).results
                   /\ outputFile' = Finish(rets, isValid).outputFile
              ELSE UNCHANGED <<phase, results, outputFile>>
    /\ UNCHANGED <<program, airports, aircrafts, lookup, flights, isValid>>

NextBatch == processFlightData \/ MapFlight

SpecBatch == InitBatch /\ [][NextBatch]_vars

-----------------------------------------------------------------------------
(* Vocabulary of the properties *)

called == outcome # NoOutcome
Success == called /\ outcome.ret.tag = "ok"
Failed == called /\ outcome.ret.tag # "ok"

\* the diagnostic of the last calculation, wherever the program put it:
\* in the object it returned, or on the console
Diagnostic ==
    IF outcome.ret.tag = "error" THEN outcome.ret.error
    ELSE IF Len(outcome.console) > 0 THEN outcome.console[1]
    ELSE NoMsg

FailureKind == IF Failed THEN Diagnostic.kind ELSE "none"

LowerChar(ch) ==
    IF \E i \in 1..26 : UpperChars[i] = ch
    THEN LowerChars[CHOOSE i \in 1..26 : UpperChars[i] = ch]
    ELSE ch

\* two strings that differ at most in the case of their letters
SameIgnoringCase(a, b) ==
    /\ Len(a) = Len(b)
    /\ \A i \in 1..Len(a) : LowerChar(a[i]) = LowerChar(b[i])

Matching(key, table) == {i \in 1..Len(table) : SameIgnoringCase(table[i].key, key)}
Resolves(key, table) == Matching(key, table) # {}
Resolved(key, table) ==
    table[CHOOSE i \in Matching(key, table) : \A j \in Matching(key, table) : i <= j]

BothResolve ==
    /\ Resolves(flight.overseasAirport, airports)
    /\ Resolves(flight.aircraftType, aircrafts)
ReqAirport == Resolved(flight.overseasAirport, airports)
ReqAircraft == Resolved(flight.aircraftType, aircrafts)

ClassAware == program = "planning"
Classes == 1..3

\* the request: booked seats and ticket prices per class
Booked == <<parseInt(flight.economySeats), parseInt(flight.businessSeats),
            parseInt(flight.firstClassSeats)>>
Prices == <<parseFloat(flight.economyPrice), parseFloat(flight.businessPrice),
            parseFloat(flight.firstClassPrice)>>
TotalBooked == Add(Add(Booked[1], Booked[2]), Booked[3])

\* the resolved aircraft: capacity per class (class-aware variant) and in
\* total, running cost, range
Capacity == <<parseInt(ReqAircraft.col3), parseInt(ReqAircraft.col4),
              parseInt(ReqAircraft.col5)>>
TotalCapacity ==
    IF ClassAware THEN Add(Add(Capacity[1], Capacity[2]), Capacity[3])
    ELSE Capacity[1]
RunningCost == parseFloat(stripNonNumeric(ReqAircraft.cost))
MaxRange == parseFloat(ReqAircraft.range)

\* the distance the program selects from the resolved airport
FromMan ==
    IF ClassAware THEN SameIgnoringCase(flight.ukAirport, MAN)
    ELSE flight.ukAirport = MAN
SelectedDistance ==
    IF FromMan THEN parseFloat(ReqAirport.distMan) ELSE parseFloat(ReqAirport.distLhr)

\* income and cost before they are fixed to two decimals
RawIncome ==
    Add(Add(Mul(Booked[1], Prices[1]), Mul(Booked[2], Prices[2])),
        Mul(Booked[3], Prices[3]))
RawCost == Mul(Mul(RunningCost, Div100(SelectedDistance)), TotalBooked)

\* the conditions of the checks
Overbooked == Gt(TotalBooked, TotalCapacity)
RangeBad == Gt(SelectedDistance, MaxRange)
\* the numeric sanity check of the two variants that have one
SanityBad ==
    /\ ~ClassAware
    /\ \/ isNaN(SelectedDistance) \/ isNaN(RunningCost)
       \/ isNaN(MaxRange) \/ isNaN(TotalCapacity)
ClassUnavailable ==
    /\ ClassAware
    /\ \E c \in Classes : Gt(Booked[c], Whole(0)) /\ IsZero(Capacity[c])
ClassOverbooked ==
    /\ ClassAware
    /\ \E c \in Classes : Gt(Booked[c], Capacity[c])

-----------------------------------------------------------------------------
(* C1 *)

\* C1 as stated: whenever airport and aircraft resolve and the booked
\* seats in total exceed the total capacity, the calculation returns an
\* overbooking failure.
C1_OverbookedIsOverbookingError ==
    (called /\ BothResolve /\ Overbooked) => FailureKind = "Overbooking"

\* C1, amended: whenever airport and aircraft resolve and the booked seats
\* in total exceed the total capacity, the calculation never returns a
\* success result; it returns the failure of the first check that fails,
\* which is the overbooking failure unless the numeric sanity check, the
\* range check or the class availability check fails before it.
C1_OverbookedNeverSucceeds ==
    (called /\ BothResolve /\ Overbooked) =>
        /\ ~Success
        /\ FailureKind = (IF SanityBad THEN "InvalidNumericData"
                          ELSE IF RangeBad THEN "RangeExceeded"
                          ELSE IF ClassUnavailable THEN "ClassUnavailable"
                          ELSE "Overbooking")

\* an overbooked request in range is refused as overbooked
C1_Witness ==
    /\ called /\ BothResolve /\ Overbooked
    /\ ~RangeBad
    /\ FailureKind = "Overbooking"
    /\ Diagnostic.cls = "total"

-----------------------------------------------------------------------------
(* C2 *)

\* C2 as stated: whenever airport and aircraft resolve and the selected
\* distance exceeds the aircraft's range, the result is the range-exceeded
\* failure and no income, cost or profit is computed.
C2_OutOfRangeIsRangeExceeded ==
    (called /\ BothResolve /\ RangeBad) =>
        /\ FailureKind = "RangeExceeded"
        /\ outcome.computed = {}

\* C2, amended: whenever airport and aircraft resolve, the numeric sanity
\* check (where the variant has one) passes and the selected distance
\* exceeds the aircraft's range, the result is the range-exceeded failure
\* with that distance and range, whatever the seats and prices are, and no
\* income, cost or profit is computed.
C2_OutOfRangeAfterSanity ==
    (called /\ BothResolve /\ RangeBad /\ ~SanityBad) =>
        /\ FailureKind = "RangeExceeded"
        /\ Diagnostic.distance = SelectedDistance
        /\ Diagnostic.maxRange = MaxRange
        /\ outcome.computed = {}
        /\ outcome.ret.fields = {}

\* a request out of range that is overbooked as well
C2_Witness ==
    /\ called /\ BothResolve /\ RangeBad /\ Overbooked
    /\ FailureKind = "RangeExceeded"

-----------------------------------------------------------------------------
(* C3 *)

\* the position, in the order of C3, of the check a result comes from:
\* 1 unknown airport, 2 unknown aircraft, 3 invalid numeric reference data,
\* 4 range exceeded, 5 class unavailable, 6 per-class overbooking, 7 total
\* overbooking, 8 invalid income, 9 invalid total cost, 10 success
StageOf(msg) ==
    CASE msg.kind = "UnknownAirport" -> 1
      [] msg.kind = "UnknownAircraft" -> 2
      [] msg.kind = "InvalidNumericData" /\ msg.dataType = "income" -> 8
      [] msg.kind = "InvalidNumericData" /\ msg.dataType = "total cost" -> 9
      [] msg.kind = "InvalidNumericData" -> 3
      [] msg.kind = "RangeExceeded" -> 4
      [] msg.kind = "ClassUnavailable" -> 5
      [] msg.kind = "Overbooking" /\ msg.cls # "total" -> 6
      [] msg.kind = "Overbooking" -> 7
      [] OTHER -> 0

ObservedStage == IF Success THEN 10 ELSE StageOf(Diagnostic)

\* reference data that is not a number: the distance, the running cost,
\* the range, the capacity (each class capacity in the class-aware variant)
ReferenceNotNumeric ==
    \/ isNaN(SelectedDistance) \/ isNaN(RunningCost) \/ isNaN(MaxRange)
    \/ IF ClassAware THEN \E c \in Classes : isNaN(Capacity[c])
       ELSE isNaN(TotalCapacity)

\* the earliest check of the order of C3 that the request violates
EarliestViolated ==
    IF ~Resolves(flight.overseasAirport, airports) THEN 1
    ELSE IF ~Resolves(flight.aircraftType, aircrafts) THEN 2
    ELSE IF ReferenceNotNumeric THEN 3
    ELSE IF RangeBad THEN 4
    ELSE IF ClassUnavailable THEN 5
    ELSE IF ClassOverbooked THEN 6
    ELSE IF Overbooked THEN 7
    ELSE IF ~isFinite(RawIncome) THEN 8
    ELSE IF ~isFinite(RawCost) THEN 9
    ELSE 10

\* C3 as stated: the calculation returns the failure of the earliest check
\* the request violates in the order unknown airport, unknown aircraft,
\* invalid numeric reference data, range exceeded, class unavailable,
\* per-class overbooking, total overbooking, invalid income, invalid total
\* cost; a failure is exactly one diagnostic, and nothing is checked or
\* computed after the check that fails.
C3_FailFastOrder ==
    called =>
        /\ ObservedStage = EarliestViolated
        /\ Failed => /\ Len(outcome.console) + (IF outcome.ret.tag = "error" THEN 1 ELSE 0) = 1
                     /\ "profit" \notin outcome.computed

-----------------------------------------------------------------------------
(* C4 *)

\* C4 as stated: every failure is returned to the caller as a value that
\* tells the kind of the failure and carries its context: the airport codes
\* and the aircraft type, requested and available seats for overbooking,
\* distance and range for range exceeded.
C4_FailuresAreData ==
    Failed =>
        /\ outcome.ret.tag = "error"
        /\ outcome.ret.error.kind # "none"
        /\ {"overseasAirport"} \subseteq outcome.ret.error.carries
        /\ outcome.ret.error.kind # "UnknownAirport" =>
              {"ukAirport", "aircraftType"} \subseteq outcome.ret.error.carries
        /\ outcome.ret.error.kind = "Overbooking" =>
              {"requested", "available"} \subseteq outcome.ret.error.carries
        /\ outcome.ret.error.kind = "RangeExceeded" =>
              {"distance", "maxRange"} \subseteq outcome.ret.error.carries

-----------------------------------------------------------------------------
(* C6 *)

\* C6 as stated: an unknown aircraft type yields a failure that lists every
\* aircraft type of the aircraft table, and an unknown overseas airport
\* code one that lists every airport code of the airport table.
C6_MissListsValidKeys ==
    /\ FailureKind = "UnknownAirport" =>
          /\ "valid" \in Diagnostic.carries
          /\ Diagnostic.valid = [i \in 1..Len(airports) |-> airports[i].key]
    /\ FailureKind = "UnknownAircraft" =>
          /\ "valid" \in Diagnostic.carries
          /\ Diagnostic.valid = [i \in 1..Len(aircrafts) |-> aircrafts[i].key]

-----------------------------------------------------------------------------
(* C8 *)

\* C8 as stated: in every success result income, cost and profit are
\* finite numbers, neither NaN nor an infinity.
C8_SuccessIsFinite ==
    Success =>
        /\ isFinite(outcome.ret.income)
        /\ isFinite(outcome.ret.cost)
        /\ isFinite(outcome.ret.profit)

-----------------------------------------------------------------------------
(* C9 *)

IsNegative(x) == Gt(Whole(0), x)

\* C9 as stated: no success result comes from a request with a negative
\* seat count or a negative price, and income and cost of a success result
\* are not negative.
C9_NeverNegative ==
    Success =>
        /\ \A c \in Classes : ~IsNegative(Booked[c]) /\ ~IsNegative(Prices[c])
        /\ ~IsNegative(outcome.ret.income)
        /\ ~IsNegative(outcome.ret.cost)

-----------------------------------------------------------------------------
(* C10 *)

\* a request as the data model has it: seat counts and prices that are
\* numbers and not negative
ValidRequest ==
    \A c \in Classes :
        /\ isFinite(Booked[c]) /\ ~IsNegative(Booked[c])
        /\ isFinite(Prices[c]) /\ ~IsNegative(Prices[c])

\* C10 as stated: for every valid request that succeeds, the profit of the
\* result is the income of the result minus the cost of the result, all
\* three as fixed to two decimals.
C10_ProfitIsIncomeMinusCost ==
    (Success /\ ValidRequest) =>
        outcome.ret.profit = Sub(outcome.ret.income, outcome.ret.cost)

\* a value with no fraction of a penny
WholePence(x) == x.k = "num" /\ x.v % (Scale \div 100) = 0

\* C10, amended: in every success result the profit is the income minus
\* the cost as computed, before rounding, then fixed to two decimals; when
\* income and cost are finite it is within one penny of the income of the
\* result minus the cost of the result, and equal to it when income and
\* cost as computed are whole pence.
C10_ProfitRoundedOnce ==
    Success =>
        /\ outcome.ret.profit = toFixed2(Sub(RawIncome, RawCost))
        /\ (isFinite(outcome.ret.income) /\ isFinite(outcome.ret.cost)) =>
              /\ isFinite(outcome.ret.profit)
              /\ Abs(outcome.ret.profit.v
                     - (outcome.ret.income.v - outcome.ret.cost.v)) <= 1
        /\ (WholePence(RawIncome) /\ WholePence(RawCost)) =>
              outcome.ret.profit = Sub(outcome.ret.income, outcome.ret.cost)

\* a success whose profit is a penny off the difference of the two
\* rounded amounts
C10_Witness ==
    /\ Success /\ ValidRequest
    /\ isFinite(outcome.ret.income) /\ isFinite(outcome.ret.cost)
    /\ outcome.ret.profit # Sub(outcome.ret.income, outcome.ret.cost)

-----------------------------------------------------------------------------
(* C7 *)

\* C7: a lookup finds a row whose key is the requested key up to the case
\* of the letters, the first such row of the table, and finds nothing when
\* the table has no such row: a key that is a proper prefix or extension
\* of a table key finds nothing, a key that differs in case only is found.
C7_CaseInsensitiveExactMatch ==
    lookup.called =>
        IF Matching(lookup.key, airports) = {}
        THEN lookup.found = undefined
        ELSE /\ lookup.found # undefined
             /\ SameIgnoringCase(lookup.found.key, lookup.key)
             /\ lookup.found = Resolved(lookup.key, airports)

\* a key found under a different spelling, in a table that also holds a
\* proper prefix of it
C7_Witness ==
    /\ lookup.called
    /\ lookup.found # undefined
    /\ lookup.found.key # lookup.key
    /\ \E i \in 1..Len(airports) :
          /\ Len(airports[i].key) < Len(lookup.key)
          /\ airports[i].key = SubSeq(lookup.key, 1, Len(airports[i].key))

-----------------------------------------------------------------------------
(* C5 *)

RECURSIVE SuccessesOf(_)
\* the success results of the first n flights, in input order
SuccessesOf(n) ==
    IF n = 0 THEN <<>>
    ELSE LET r == Calculate(program, flights[n], airports, aircrafts).ret
         IN  IF r.tag = "ok" THEN Append(SuccessesOf(n - 1), r)
             ELSE SuccessesOf(n - 1)

-----------------------------------------------------------------------------
(* C11 *)

\* the request's UK origin, read without regard to the case of its letters
OriginIsPrimary == SameIgnoringCase(flight.ukAirport, MAN)
OriginIsOther == SameIgnoringCase(flight.ukAirport, LHR)

\* the distance of the resolved airport that belongs to the request's origin
OriginDistance ==
    IF OriginIsPrimary THEN parseFloat(ReqAirport.distMan)
    ELSE parseFloat(ReqAirport.distLhr)

\* C11 as stated: when airport and aircraft resolve, the distance of the
\* range check and of the cost is the first distance of the airport for the
\* origin MAN and the second for the origin LHR, in whatever case the
\* request writes the origin; a request from any other origin is never
\* priced.
C11_DistanceByOrigin ==
    (called /\ BothResolve) =>
        IF OriginIsPrimary \/ OriginIsOther
        THEN /\ FailureKind = "RangeExceeded" =>
                    /\ Diagnostic.distance = OriginDistance
                    /\ Gt(OriginDistance, MaxRange)
             /\ Success =>
                    /\ ~Gt(OriginDistance, MaxRange)
                    /\ outcome.ret.cost =
                          toFixed2(Mul(Mul(RunningCost, Div100(OriginDistance)),
                                       TotalBooked))
        ELSE ~Success

-----------------------------------------------------------------------------
(* C12 *)

\* the first reference value that is not a number, in the order distance,
\* running cost, max flight range, capacity
FirstNotNumeric ==
    IF isNaN(SelectedDistance) THEN "distance"
    ELSE IF isNaN(RunningCost) THEN "running cost"
    ELSE IF isNaN(MaxRange) THEN "max flight range"
    ELSE "total seats"

\* the checks that come after the numeric sanity check
LaterChecks ==
    {"range", "unavailable:economy", "unavailable:business", "unavailable:first",
     "overbooking:economy", "overbooking:business", "overbooking:first",
     "overbooking:total"}

\* C12 as stated: when airport and aircraft resolve and the selected
\* distance, the running cost, the range or the capacity (any class
\* capacity in the class-aware variant) is not a number, the calculation
\* returns the invalid-numeric failure that names the first such value in
\* the order distance, running cost, max flight range, capacity, without
\* evaluating the range check or an overbooking check, and never a success.
C12_NonNumericReferenceRefused ==
    (called /\ BothResolve /\ ReferenceNotNumeric) =>
        /\ ~Success
        /\ FailureKind = "InvalidNumericData"
        /\ Diagnostic.dataType = FirstNotNumeric
        /\ Diagnostic.value = NaN
        /\ \A i \in 1..Len(outcome.checks) : outcome.checks[i] \notin LaterChecks

-----------------------------------------------------------------------------
(* C13 *)

ClassNames == <<"economy", "business", "first">>

\* the classes booked beyond their own capacity
OverClasses == {c \in Classes : Gt(Booked[c], Capacity[c])}
FirstOverClass == CHOOSE c \in OverClasses : \A d \in OverClasses : c <= d

\* every class with a booking has a capacity other than zero
BookedHaveCapacity ==
    \A c \in Classes : Gt(Booked[c], Whole(0)) => ~IsZero(Capacity[c])

\* the failure is the overbooking failure of class c alone, with the
\* requested and the available count of that class
OverbookingOf(c) ==
    /\ outcome.ret.tag = "error"
    /\ Len(outcome.console) = 0
    /\ Diagnostic.kind = "Overbooking"
    /\ Diagnostic.cls = ClassNames[c]
    /\ {"requested", "available"} \subseteq Diagnostic.carries
    /\ Diagnostic.requested = Booked[c]
    /\ Diagnostic.available = Capacity[c]

\* C13 as stated: in the class-aware calculation, when more than one class
\* is booked beyond its capacity and every booked class has a capacity
\* other than zero, the result is one overbooking failure, of the first
\* such class in the order economy, business, first, with that class's
\* requested and available counts; the total-overbooking failure is
\* returned only when no class is over its own capacity.
C13_FirstViolatedClass ==
    (called /\ ClassAware /\ BothResolve) =>
        /\ (Cardinality(OverClasses) > 1 /\ BookedHaveCapacity) =>
              OverbookingOf(FirstOverClass)
        /\ (FailureKind = "Overbooking" /\ Diagnostic.cls = "total") =>
              OverClasses = {}

\* C13, amended: in the class-aware calculation, when the selected distance
\* is within the aircraft's range, more than one class is booked beyond its
\* capacity and every booked class has a capacity other than zero, the
\* result is one overbooking failure, of the first such class in the order
\* economy, business, first, with that class's requested and available
\* counts; every overbooking failure is the one of a class that is over
\* its own capacity, so that the total-overbooking failure is not returned
\* while a class is over its capacity (and, the total capacity being the
\* sum of the class capacities, is not returned at all).
C13_FirstViolatedClassInRange ==
    (called /\ ClassAware /\ BothResolve) =>
        /\ (~RangeBad /\ Cardinality(OverClasses) > 1 /\ BookedHaveCapacity) =>
              OverbookingOf(FirstOverClass)
        /\ FailureKind = "Overbooking" =>
              /\ OverClasses # {}
              /\ OverbookingOf(FirstOverClass)

\* business and first are both overbooked, economy is not: the failure is
\* the one of business
C13_Witness ==
    /\ called /\ ClassAware /\ BothResolve /\ ~RangeBad
    /\ OverClasses = {2, 3}
    /\ BookedHaveCapacity
    /\ OverbookingOf(2)

-----------------------------------------------------------------------------
(* C14 *)

\* an amount of pounds and pence as toFixed(2) prints it
Pounds(n) == [k |-> "num", v |-> n * 100]

\* the long flight: 5000 km at 5.0 per seat per 100 km, range 6000, 150
\* seats of which all 150 are booked at 200
LongFlight ==
    /\ called /\ BothResolve
    /\ SelectedDistance = Whole(5000)
    /\ RunningCost = Whole(5)
    /\ MaxRange = Whole(6000)
    /\ Capacity[1] = Whole(150)
    /\ Booked = <<Whole(150), Whole(0), Whole(0)>>
    /\ Prices[1] = Whole(200)

\* C14: in every success result the cost is the running cost per seat per
\* 100 km times a hundredth of the selected distance times the seats booked
\* in all classes, and the income is the sum over the classes of seats
\* booked times ticket price, each fixed to two decimals; the long flight
\* succeeds with income 30000.00, cost 37500.00 and profit -7500.00.
C14_CostAndIncomeFormula ==
    /\ Success =>
          /\ outcome.ret.income = toFixed2(RawIncome)
          /\ outcome.ret.cost = toFixed2(RawCost)
          /\ {"income", "cost", "profit"} \subseteq outcome.ret.fields
    /\ LongFlight =>
          /\ Success
          /\ outcome.ret.income = Pounds(30000)
          /\ outcome.ret.cost = Pounds(37500)
          /\ outcome.ret.profit = Pounds(-7500)

\* the long flight, evaluated: a success result with a loss
C14_Witness ==
    /\ LongFlight
    /\ Success
    /\ IsNegative(outcome.ret.profit)

=============================================================================
